---- MODULE Spec2Model ----
(***************************************************************************)
(* The product catalog service of server.js: an Express application with   *)
(* an in-memory product collection, an API-key middleware, a validation    *)
(* middleware, eight routes, a catch-all and a global error handler.       *)
(*                                                                         *)
(* JavaScript values are pairs <<typeof, payload>>; objects (products,     *)
(* request bodies, queries, headers) are functions from field names to     *)
(* values, an absent field being a name outside the DOMAIN.                *)
(***************************************************************************)
EXTENDS Integers, Sequences, FiniteSets, TLC

VARIABLES
  products,   \* the in-memory collection (let products)
  uuidCount,  \* how many ids uuidv4() has generated
  mutations,  \* how many requests have changed the store successfully
  req,        \* the request being served, NoRequest between requests
  res,        \* the response written for req
  stages,     \* the middleware and handlers that ran for req, in order
  before,     \* the collection as it was when req arrived
  inflight,   \* the requests accepted and not yet answered (SpecConc)
  served      \* the requests that changed the store, in that order (SpecConc)

vars ==
  <<products, uuidCount, mutations, req, res, stages, before, inflight, served>>

-----------------------------------------------------------------------------
(* Bounds                                                                  *)

\* number of POSTs that may succeed (each one draws a fresh uuid)
MaxCreates == 1

\* number of requests that may change the store in one behaviour
MaxMutations == 2

\* number of requests in flight at a time
MaxInFlight == 2

-----------------------------------------------------------------------------
(* JavaScript values                                                       *)

Str(s) == <<"string", s>>
Num(n) == <<"number", n>>
Bool(b) == <<"boolean", b>>
Undefined == <<"undefined", "">>

TypeOf(v) == v[1]

\* !v
Falsy(v) ==
  \/ v = Undefined
  \/ v = Str("")
  \/ v = Num(0)
  \/ v = Bool(FALSE)

EmptyObject == [f \in {} |-> Undefined]

\* o.f
Get(o, f) == IF f \in DOMAIN o THEN o[f] ELSE Undefined

\* { ...a, ...b }
Spread(a, b) ==
  [f \in (DOMAIN a) \cup (DOMAIN b) |-> IF f \in DOMAIN b THEN b[f] ELSE a[f]]

\* v ?? d
Coalesce(v, d) == IF v = Undefined THEN d ELSE v

-----------------------------------------------------------------------------
(* Strings                                                                 *)

UpperCase == "ABCDEFGHIJKLMNOPQRSTUVWXYZ"
LowerCase == "abcdefghijklmnopqrstuvwxyz"

CharAt(s, i) == SubSeq(s, i, i)

LowerChar(c) ==
  IF \E i \in 1..Len(UpperCase) : CharAt(UpperCase, i) = c
    THEN CharAt(LowerCase, CHOOSE i \in 1..Len(UpperCase) : CharAt(UpperCase, i) = c)
    ELSE c

RECURSIVE ToLowerCase(_)
ToLowerCase(s) ==
  IF Len(s) = 0 THEN ""
  ELSE LowerChar(CharAt(s, 1)) \o ToLowerCase(SubSeq(s, 2, Len(s)))

\* s.includes(t)
Includes(s, t) ==
  \E i \in 1..(Len(s) + 1) :
    /\ i + Len(t) - 1 <= Len(s)
    /\ SubSeq(s, i, i + Len(t) - 1) = t

Digits == "0123456789"

IsDigit(c) == \E i \in 1..Len(Digits) : CharAt(Digits, i) = c
DigitValue(c) == (CHOOSE i \in 1..Len(Digits) : CharAt(Digits, i) = c) - 1

\* value of the longest prefix of digits of s, acc being the value read so far
RECURSIVE ParseDigits(_, _)
ParseDigits(s, acc) ==
  IF Len(s) = 0 \/ ~IsDigit(CharAt(s, 1)) THEN acc
  ELSE ParseDigits(SubSeq(s, 2, Len(s)), 10 * acc + DigitValue(CharAt(s, 1)))

\* parseInt(s) of a string: an optional sign, then the leading digits; NaN
\* when no digit follows the sign
ParseInt(s) ==
  LET neg == Len(s) > 0 /\ CharAt(s, 1) = "-"
      body == IF Len(s) > 0 /\ CharAt(s, 1) \in {"-", "+"}
                THEN SubSeq(s, 2, Len(s)) ELSE s
  IN IF Len(body) = 0 \/ ~IsDigit(CharAt(body, 1))
       THEN [nan |-> TRUE, n |-> 0]
       ELSE [nan |-> FALSE,
             n |-> IF neg THEN 0 - ParseDigits(body, 0) ELSE ParseDigits(body, 0)]

-----------------------------------------------------------------------------
(* Arrays                                                                  *)

RECURSIVE Filter(_, _)
\* arr.filter(p => p \in keep), keep being the set of the elements to keep
Filter(arr, keep) ==
  IF arr = <<>> THEN <<>>
  ELSE IF Head(arr) \in keep
         THEN <<Head(arr)>> \o Filter(Tail(arr), keep)
         ELSE Filter(Tail(arr), keep)

Range(arr) == {arr[i] : i \in 1..Len(arr)}

\* slice with the end index taken as inclusive
SliceInclusive(arr, start, end) ==
  LET len == Len(arr)
      from == IF start < 0 THEN (IF len + start < 0 THEN 0 ELSE len + start)
              ELSE (IF start > len THEN len ELSE start)
      to == IF end + 1 < 0 THEN (IF len + end + 1 < 0 THEN 0 ELSE len + end + 1)
            ELSE (IF end + 1 > len THEN len ELSE end + 1)
  IN SubSeq(arr, from + 1, to)

\* arr.slice(start, end): a negative index counts from the end, and both are
\* clamped to 0..length
Slice(arr, start, end) ==
  LET len == Len(arr)
      from == IF start < 0 THEN (IF len + start < 0 THEN 0 ELSE len + start)
              ELSE (IF start > len THEN len ELSE start)
      to == IF end < 0 THEN (IF len + end < 0 THEN 0 ELSE len + end)
            ELSE (IF end > len THEN len ELSE end)
  IN SubSeq(arr, from + 1, to)

\* arr.findIndex(p => p.id === id), 0-based, -1 when there is none
FindIndex(arr, id) ==
  IF \E i \in 1..Len(arr) : Get(arr[i], "id") = Str(id)
    THEN (CHOOSE i \in 1..Len(arr) :
            /\ Get(arr[i], "id") = Str(id)
            /\ \A j \in 1..(i - 1) : Get(arr[j], "id") # Str(id)) - 1
    ELSE -1

\* arr.splice(index): the array cut at the 0-based index
SpliceOutRest(arr, index) ==
  SubSeq(arr, 1, index)

\* arr.splice(index, 1): the array without the element at the 0-based index
SpliceOut(arr, index) ==
  SubSeq(arr, 1, index) \o SubSeq(arr, index + 2, Len(arr))

-----------------------------------------------------------------------------
(* Sample in-memory data                                                   *)

SeedProducts ==
  << [id |-> Str("1"), name |-> Str("Laptop"),
      description |-> Str("High-performance laptop with 16GB RAM"),
      price |-> Num(1200), category |-> Str("electronics"),
      inStock |-> Bool(TRUE)],
     [id |-> Str("2"), name |-> Str("Smartphone"),
      description |-> Str("Latest model with 128GB storage"),
      price |-> Num(800), category |-> Str("electronics"),
      inStock |-> Bool(TRUE)],
     [id |-> Str("3"), name |-> Str("Coffee Maker"),
      description |-> Str("Programmable coffee maker with timer"),
      price |-> Num(50), category |-> Str("kitchen"),
      inStock |-> Bool(FALSE)] >>

\* the n-th value returned by uuidv4(): a value never returned before and
\* never chosen by a client
Uuid(n) == "uuid-" \o CharAt(Digits, n + 1)

-----------------------------------------------------------------------------
(* Errors and responses                                                    *)

\* class AppError: an Error with a statusCode
AppError(message, statusCode) ==
  [message |-> Str(message), statusCode |-> Num(statusCode)]

NotFoundError(message) == AppError(message, 404)

\* ValidationError carrying the status 422
ValidationError422(message) == AppError(message, 422)

ValidationError(message) == AppError(message, 400)

\* the ReferenceError the engine throws on the use of an undeclared name: an
\* Error without a statusCode
ReferenceError(name) ==
  [message |-> Str(name \o " is not defined"), statusCode |-> Undefined]

\* the TypeError the engine throws on a call of a value that is no function
TypeError(message) == [message |-> Str(message), statusCode |-> Undefined]

NoError == [message |-> Undefined, statusCode |-> Undefined]

NoRequest == [method |-> "NONE"]
NoResponse == [code |-> 0]

\* res.status(code).json(body)
Json(code, body) == [code |-> code, body |-> body]

\* the global error handler
ErrorHandler(err) ==
  Json(IF Falsy(err.statusCode) THEN 500 ELSE err.statusCode[2],
       [status |-> "error",
        message |-> IF Falsy(err.message) THEN "Internal Server Error"
                    ELSE err.message[2]])

\* what a request leaves behind: the store, the response and the stages run
Outcome(prods, count, response, ran) ==
  [products |-> prods, uuidCount |-> count, res |-> response, stages |-> ran]

\* a stage forwarded err with next(err), or threw it: the error handler is
\* the next and last stage
Failed(err, ran) ==
  Outcome(products, uuidCount, ErrorHandler(err), ran \o <<"errorHandler">>)

\* app.use(bodyParser.json()) and the logger run for every request
Prelude == <<"bodyParser.json", "logger">>

-----------------------------------------------------------------------------
(* Middleware                                                              *)

ApiKey == "mysecretapikey"

\* authenticate accepting any key that is present
AuthenticateAnyKey(r) ==
  LET apiKey == Get(r.headers, "x-api-key")
  IN ~Falsy(apiKey)

\* authenticate: TRUE when it calls next(), FALSE when it answers 401
Authenticate(r) ==
  LET apiKey == Get(r.headers, "x-api-key")
  IN ~(Falsy(apiKey) \/ apiKey # Str(ApiKey))

Unauthorized ==
  Json(401, [status |-> "error",
             message |-> "Unauthorized: Missing or invalid API key"])

\* validateProduct without the type check of the name
ValidateProductAnyName(r) ==
  LET name == Get(r.body, "name")
      price == Get(r.body, "price")
  IN IF Falsy(name)
       THEN ValidationError("Product name is required and must be a string")
     ELSE IF price = Undefined \/ TypeOf(price) # "number"
       THEN ValidationError("Product price is required and must be a number")
     ELSE NoError

\* validateProduct without the type check of the price
ValidateProductAnyPrice(r) ==
  LET name == Get(r.body, "name")
      price == Get(r.body, "price")
  IN IF Falsy(name) \/ TypeOf(name) # "string"
       THEN ValidationError("Product name is required and must be a string")
     ELSE IF price = Undefined
       THEN ValidationError("Product price is required and must be a number")
     ELSE NoError

\* validateProduct: the error it forwards, NoError when it calls next()
ValidateProduct(r) ==
  LET name == Get(r.body, "name")
      price == Get(r.body, "price")
  IN IF Falsy(name) \/ TypeOf(name) # "string"
       THEN ValidationError("Product name is required and must be a string")
     ELSE IF price = Undefined \/ TypeOf(price) # "number"
       THEN ValidationError("Product price is required and must be a number")
     ELSE NoError

-----------------------------------------------------------------------------
(* Route table and dispatch                                                *)

Route(method, pattern, handler) ==
  [method |-> method, pattern |-> pattern, handler |-> handler]

\* the routes with the by-id route registered before search and stats
RoutesParamFirst ==
  << Route("GET", <<>>, "root"),
     Route("GET", <<"api", "products">>, "listProducts"),
     Route("GET", <<"api", "products", ":id">>, "getProduct"),
     Route("GET", <<"api", "products", "search">>, "searchProducts"),
     Route("GET", <<"api", "products", "stats">>, "productStats"),
     Route("POST", <<"api", "products">>, "createProduct"),
     Route("PUT", <<"api", "products", ":id">>, "updateProduct"),
     Route("DELETE", <<"api", "products", ":id">>, "deleteProduct") >>

\* the routes in the order of their registration; a path is the sequence of
\* its segments and ":id" is the route parameter
Routes ==
  << Route("GET", <<>>, "root"),
     Route("GET", <<"api", "products">>, "listProducts"),
     Route("GET", <<"api", "products", "search">>, "searchProducts"),
     Route("GET", <<"api", "products", "stats">>, "productStats"),
     Route("GET", <<"api", "products", ":id">>, "getProduct"),
     Route("POST", <<"api", "products">>, "createProduct"),
     Route("PUT", <<"api", "products", ":id">>, "updateProduct"),
     Route("DELETE", <<"api", "products", ":id">>, "deleteProduct") >>

\* a match on the path alone, whatever the method
MatchesPathOnly(route, r) ==
  /\ r.method # "NONE"
  /\ Len(route.pattern) = Len(r.path)
  /\ \A i \in 1..Len(r.path) :
       route.pattern[i] = ":id" \/ route.pattern[i] = r.path[i]

\* the route matches the request: same method, same number of segments, and
\* every segment equal unless the pattern's segment is the parameter
Matches(route, r) ==
  /\ route.method = r.method
  /\ Len(route.pattern) = Len(r.path)
  /\ \A i \in 1..Len(r.path) :
       route.pattern[i] = ":id" \/ route.pattern[i] = r.path[i]

\* the handler of the first matching route in registration order, the
\* catch-all app.use when none matches
Dispatch(r) ==
  IF \E i \in 1..Len(Routes) : Matches(Routes[i], r)
    THEN Routes[CHOOSE i \in 1..Len(Routes) :
                  /\ Matches(Routes[i], r)
                  /\ \A j \in 1..(i - 1) : ~Matches(Routes[j], r)].handler
    ELSE "routeNotFound"

\* req.params.id
ParamId(r) == r.path[3]

\* the message of the NotFoundError of the by-id handlers
ProductNotFound(id) == "Product with ID " \o id \o " not found"

-----------------------------------------------------------------------------
(* Route handlers: the outcome of request r in the current state           *)

\* app.get('/')
Root(r) ==
  Outcome(products, uuidCount, [code |-> 200, body |-> "Hello World"],
          Prelude \o <<"root">>)

\* the list handler paginating with splice(start, limit) in place of slice:
\* without a category filter the page is cut out of the collection itself
ListProductsSplice(r) ==
  LET category == Get(r.query, "category")
      page == IF "page" \in DOMAIN r.query
                THEN ParseInt(r.query.page[2]) ELSE ParseInt("1")
      limit == IF "limit" \in DOMAIN r.query
                 THEN ParseInt(r.query.limit[2]) ELSE ParseInt("3")
      filtered == IF ~Falsy(category)
                    THEN Filter(products,
                                {p \in Range(products) :
                                   Get(p, "category") = category})
                    ELSE products
      len == Len(filtered)
      start == (page.n - 1) * limit.n
      from == IF start < 0 THEN (IF len + start < 0 THEN 0 ELSE len + start)
              ELSE (IF start > len THEN len ELSE start)
      count == IF page.nan \/ limit.nan \/ limit.n < 0 THEN 0
               ELSE IF limit.n > len - from THEN len - from ELSE limit.n
      paginated == SubSeq(filtered, from + 1, from + count)
      rest == SubSeq(filtered, 1, from) \o SubSeq(filtered, from + count + 1, len)
  IN Outcome(IF ~Falsy(category) THEN products ELSE rest, uuidCount,
             Json(200, [status |-> "success",
                        page |-> IF page.nan THEN "null" ELSE page.n,
                        total |-> Len(rest),
                        data |-> paginated]),
             Prelude \o <<"listProducts">>)

\* app.get('/api/products'): filtering and pagination
ListProducts(r) ==
  LET category == Get(r.query, "category")
      page == IF "page" \in DOMAIN r.query
                THEN ParseInt(r.query.page[2]) ELSE ParseInt("1")
      limit == IF "limit" \in DOMAIN r.query
                 THEN ParseInt(r.query.limit[2]) ELSE ParseInt("3")
      filtered == IF ~Falsy(category)
                    THEN Filter(products,
                                {p \in Range(products) :
                                   Get(p, "category") = category})
                    ELSE products
      start == (page.n - 1) * limit.n
      end == start + limit.n
      \* slice(NaN, NaN) is slice(0, 0)
      paginated == IF page.nan \/ limit.nan THEN <<>>
                   ELSE Slice(filtered, start, end)
  IN Outcome(products, uuidCount,
             Json(200, [status |-> "success",
                        page |-> IF page.nan THEN "null" ELSE page.n,
                        total |-> Len(filtered),
                        data |-> paginated]),
             Prelude \o <<"listProducts">>)

\* app.get('/api/products/search'): the handler declares (req, res) only, so
\* the use of next for a missing term throws instead of forwarding
SearchProducts(r) ==
  LET name == Get(r.query, "name")
      results == Filter(products,
                        {p \in Range(products) :
                           Includes(ToLowerCase(p.name[2]),
                                    ToLowerCase(name[2]))})
  IN IF Falsy(name)
       THEN Failed(ReferenceError("next"), Prelude \o <<"searchProducts">>)
     ELSE IF \E p \in Range(products) : TypeOf(Get(p, "name")) # "string"
       THEN Failed(TypeError("p.name.toLowerCase is not a function"),
                   Prelude \o <<"searchProducts">>)
     ELSE Outcome(products, uuidCount,
                    Json(200, [status |-> "success",
                               count |-> Len(results),
                               data |-> results]),
                    Prelude \o <<"searchProducts">>)

\* the property key under which a category is counted
CategoryKey(p) ==
  IF TypeOf(Get(p, "category")) = "string" THEN Get(p, "category")[2]
  ELSE "undefined"

\* what an object literal inherits from Object.prototype: its methods, and
\* the accessor __proto__ that reads as the prototype itself
ObjectPrototype ==
  [k \in {"constructor", "hasOwnProperty", "isPrototypeOf",
          "propertyIsEnumerable", "toLocaleString", "toString", "valueOf",
          "__proto__"} |->
     IF k = "__proto__" THEN <<"object", "[object Object]">>
     ELSE IF k = "constructor" THEN <<"function", "Object">>
     ELSE <<"function", k>>]

\* acc[key]: the own property, else the inherited one, else undefined
Lookup(acc, key) ==
  IF key \in DOMAIN acc THEN acc[key]
  ELSE IF key \in DOMAIN ObjectPrototype THEN ObjectPrototype[key]
  ELSE Undefined

\* String(v) of a value that + converts to a string
StringOf(v) ==
  IF TypeOf(v) = "function" THEN "function " \o v[2] \o "() { [native code] }"
  ELSE v[2]

\* (v || 0) + 1: a sum of numbers, a concatenation otherwise
OrZeroPlusOne(v) ==
  IF Falsy(v) THEN Num(1)
  ELSE IF TypeOf(v) = "number" THEN Num(v[2] + 1)
  ELSE Str(StringOf(v) \o "1")

\* acc[key] = v: an own property, except that a primitive assigned to
\* __proto__ is dropped by the accessor
Assign(acc, key, v) ==
  IF key = "__proto__" THEN acc
  ELSE [k \in (DOMAIN acc) \cup {key} |-> IF k = key THEN v ELSE acc[k]]

RECURSIVE CountByCategory(_, _)
\* products.reduce((acc, product) => ..., {}) with acc the counts so far
CountByCategory(arr, acc) ==
  IF arr = <<>> THEN acc
  ELSE LET key == CategoryKey(Head(arr))
       IN CountByCategory(Tail(arr),
            Assign(acc, key, OrZeroPlusOne(Lookup(acc, key))))

\* app.get('/api/products/stats')
ProductStats(r) ==
  Outcome(products, uuidCount,
          Json(200, [status |-> "success",
                     data |-> CountByCategory(products, EmptyObject)]),
          Prelude \o <<"productStats">>)

\* app.get('/api/products/:id')
GetProduct(r) ==
  LET index == FindIndex(products, ParamId(r))
  IN IF index = -1
       THEN Failed(NotFoundError(ProductNotFound(ParamId(r))),
                   Prelude \o <<"getProduct">>)
       ELSE Outcome(products, uuidCount,
                    Json(200, [status |-> "success",
                               data |-> products[index + 1]]),
                    Prelude \o <<"getProduct">>)

\* the record built with inStock || true
NewProductOrTrue(body, id) ==
  [id |-> Str(id),
   name |-> Get(body, "name"),
   description |-> Get(body, "description"),
   price |-> Get(body, "price"),
   category |-> Get(body, "category"),
   inStock |-> IF Falsy(Get(body, "inStock")) THEN Bool(TRUE)
               ELSE Get(body, "inStock")]

\* the record the create handler builds from the body
NewProduct(body, id) ==
  [id |-> Str(id),
   name |-> Get(body, "name"),
   description |-> Get(body, "description"),
   price |-> Get(body, "price"),
   category |-> Get(body, "category"),
   inStock |-> Coalesce(Get(body, "inStock"), Bool(TRUE))]

\* app.post('/api/products', authenticate, validateProduct, ...)
CreateProduct(r) ==
  LET newProduct == NewProduct(r.body, Uuid(uuidCount + 1))
  IN IF ~Authenticate(r)
       THEN Outcome(products, uuidCount, Unauthorized,
                    Prelude \o <<"authenticate">>)
     ELSE IF ValidateProduct(r) # NoError
       THEN Failed(ValidateProduct(r),
                   Prelude \o <<"authenticate", "validateProduct">>)
     ELSE Outcome(Append(products, newProduct), uuidCount + 1,
                  Json(201, [status |-> "success",
                             message |-> "Product successfully added",
                             data |-> newProduct]),
                  Prelude \o <<"authenticate", "validateProduct",
                               "createProduct">>)

\* the assignment of the body alone, without the spread of the stored record
MergeAtReplace(arr, index, body) ==
  [arr EXCEPT ![index + 1] = body]

\* products[productIndex] = { ...products[productIndex], ...req.body }
MergeAt(arr, index, body) ==
  [arr EXCEPT ![index + 1] = Spread(@, body)]

\* app.put('/api/products/:id', authenticate, validateProduct, ...)
UpdateProduct(r) ==
  LET productIndex == FindIndex(products, ParamId(r))
      updated == MergeAt(products, productIndex, r.body)
  IN IF ~Authenticate(r)
       THEN Outcome(products, uuidCount, Unauthorized,
                    Prelude \o <<"authenticate">>)
     ELSE IF ValidateProduct(r) # NoError
       THEN Failed(ValidateProduct(r),
                   Prelude \o <<"authenticate", "validateProduct">>)
     ELSE IF productIndex = -1
       THEN Failed(NotFoundError(ProductNotFound(ParamId(r))),
                   Prelude \o <<"authenticate", "validateProduct",
                                "updateProduct">>)
     ELSE Outcome(updated, uuidCount,
                  Json(200, [status |-> "success",
                             message |-> "Product successfully updated",
                             data |-> updated[productIndex + 1]]),
                  Prelude \o <<"authenticate", "validateProduct",
                               "updateProduct">>)

\* the delete handler without the check of the index: splice(-1, 1) removes
\* the last record
DeleteProductUnchecked(r) ==
  LET found == FindIndex(products, ParamId(r))
      productIndex == IF found = -1 THEN Len(products) - 1 ELSE found
  IN IF ~Authenticate(r)
       THEN Outcome(products, uuidCount, Unauthorized,
                    Prelude \o <<"authenticate">>)
     ELSE IF productIndex = -1
       THEN Outcome(products, uuidCount,
                    Json(200, [status |-> "success",
                               message |-> "Product successfully deleted"]),
                    Prelude \o <<"authenticate", "deleteProduct">>)
     ELSE Outcome(SpliceOut(products, productIndex), uuidCount,
                  Json(200, [status |-> "success",
                             message |-> "Product successfully deleted",
                             data |-> products[productIndex + 1]]),
                  Prelude \o <<"authenticate", "deleteProduct">>)

\* app.delete('/api/products/:id', authenticate, ...)
DeleteProduct(r) ==
  LET productIndex == FindIndex(products, ParamId(r))
  IN IF ~Authenticate(r)
       THEN Outcome(products, uuidCount, Unauthorized,
                    Prelude \o <<"authenticate">>)
     ELSE IF productIndex = -1
       THEN Failed(NotFoundError(ProductNotFound(ParamId(r))),
                   Prelude \o <<"authenticate", "deleteProduct">>)
     ELSE Outcome(SpliceOut(products, productIndex), uuidCount,
                  Json(200, [status |-> "success",
                             message |-> "Product successfully deleted",
                             data |-> products[productIndex + 1]]),
                  Prelude \o <<"authenticate", "deleteProduct">>)

\* the catch-all app.use after the routes
RouteNotFound(r) ==
  Failed(NotFoundError("Route not found"), Prelude \o <<"routeNotFound">>)

\* the outcome of request r: the handler the dispatcher selects, applied
Handle(r) ==
  CASE Dispatch(r) = "root" -> Root(r)
    [] Dispatch(r) = "listProducts" -> ListProducts(r)
    [] Dispatch(r) = "searchProducts" -> SearchProducts(r)
    [] Dispatch(r) = "productStats" -> ProductStats(r)
    [] Dispatch(r) = "getProduct" -> GetProduct(r)
    [] Dispatch(r) = "createProduct" -> CreateProduct(r)
    [] Dispatch(r) = "updateProduct" -> UpdateProduct(r)
    [] Dispatch(r) = "deleteProduct" -> DeleteProduct(r)
    [] OTHER -> RouteNotFound(r)

-----------------------------------------------------------------------------
(* Requests                                                                *)

Request(method, path, headers, query, body) ==
  [method |-> method, path |-> path, headers |-> headers, query |-> query,
   body |-> body]

\* the x-api-key header: absent, wrong, right
KeyHeaders ==
  { EmptyObject, [h \in {"x-api-key"} |-> Str("wrongkey")],
    [h \in {"x-api-key"} |-> Str(ApiKey)] }

\* JSON bodies that pass validateProduct: a partial one, one carrying an id
\* that a seed record has, one whose category is the name of a member of
\* Object.prototype, one carrying every field and a new id
ValidBodies ==
  { [name |-> Str("Tablet"), price |-> Num(300)],
    [id |-> Str("2"), name |-> Str("Tablet"), price |-> Num(300)],
    [name |-> Str("Tablet"), price |-> Num(300),
     category |-> Str("constructor")],
    [id |-> Str("search"), name |-> Str("Mug"),
     description |-> Str("Ceramic mug"), price |-> Num(5),
     category |-> Str("kitchen"), inStock |-> Bool(FALSE)] }

\* JSON bodies that validateProduct rejects
InvalidBodies ==
  { EmptyObject,
    [name |-> Str(""), price |-> Num(300)],
    [name |-> Num(7), price |-> Num(300)],
    [name |-> Str("Tablet")],
    [name |-> Str("Tablet"), price |-> Str("300")] }

Bodies == ValidBodies \cup InvalidBodies

\* the ids a client names in a path
PathIds == {"1", "2", "3", "9", "search"} \cup {Uuid(n) : n \in 1..MaxCreates}

IdPaths == {<<"api", "products", id>> : id \in PathIds}

\* an optional query parameter: absent, or one of the given strings
Param(name, values) ==
  {EmptyObject} \cup {[k \in {name} |-> Str(v)] : v \in values}

ListQueries ==
  { Spread(Spread(c, pg), l) :
      c \in Param("category", {"electronics"}),
      pg \in Param("page", {"1", "2", "0", "-1"}),
      l \in Param("limit", {"1", "2", "0", "-1"}) }

SearchQueries == Param("name", {"", "phone", "TAB"})

Requests ==
  {Request("GET", <<>>, EmptyObject, EmptyObject, EmptyObject)}
  \cup {Request("GET", <<"api", "products">>, EmptyObject, q, EmptyObject) :
          q \in ListQueries}
  \cup {Request("GET", <<"api", "products", "search">>, EmptyObject, q,
                EmptyObject) : q \in SearchQueries}
  \cup {Request("GET", <<"api", "products", "stats">>, EmptyObject,
                EmptyObject, EmptyObject)}
  \cup {Request("GET", p, EmptyObject, EmptyObject, EmptyObject) :
          p \in IdPaths}
  \cup {Request("POST", <<"api", "products">>, h, EmptyObject, b) :
          h \in KeyHeaders, b \in Bodies}
  \cup {Request("PUT", p, h, EmptyObject, b) :
          p \in IdPaths, h \in KeyHeaders, b \in Bodies}
  \cup {Request("DELETE", p, h, EmptyObject, EmptyObject) :
          p \in IdPaths, h \in KeyHeaders}
  \cup {Request(m, <<"api", "unknown">>, h, EmptyObject, EmptyObject) :
          m \in {"GET", "DELETE"}, h \in KeyHeaders}
  \cup {Request("POST", <<"api", "products", "search">>, h, EmptyObject, b) :
          h \in KeyHeaders, b \in {EmptyObject}}
  \cup {Request("PATCH", <<"api", "products", "1">>, h, EmptyObject, b) :
          h \in {[k \in {"x-api-key"} |-> Str(ApiKey)]}, b \in ValidBodies}

-----------------------------------------------------------------------------
(* The server                                                              *)

Init ==
  /\ products = SeedProducts
  /\ uuidCount = 0
  /\ mutations = 0
  /\ req = NoRequest
  /\ res = NoResponse
  /\ stages = <<>>
  /\ before = SeedProducts
  /\ inflight = {}
  /\ served = <<>>

\* request r arrives while the server is idle and runs to its response: the
\* middleware chain and the handler are synchronous
Serve(r) ==
  /\ req = NoRequest
  /\ \E o \in {Handle(r)} :
       /\ o.uuidCount <= MaxCreates
       /\ o.products # products => mutations < MaxMutations
       /\ products' = o.products
       /\ uuidCount' = o.uuidCount
       /\ mutations' = IF o.products # products THEN mutations + 1
                       ELSE mutations
       /\ req' = r
       /\ res' = o.res
       /\ stages' = o.stages
       /\ before' = products
       /\ UNCHANGED <<inflight, served>>

GetRoot ==
  /\ req = NoRequest
  /\ \E r \in Requests : Dispatch(r) = "root" /\ Serve(r)

GetProducts ==
  /\ req = NoRequest
  /\ \E r \in Requests : Dispatch(r) = "listProducts" /\ Serve(r)

GetSearch ==
  /\ req = NoRequest
  /\ \E r \in Requests : Dispatch(r) = "searchProducts" /\ Serve(r)

GetStats ==
  /\ req = NoRequest
  /\ \E r \in Requests : Dispatch(r) = "productStats" /\ Serve(r)

GetById ==
  /\ req = NoRequest
  /\ \E r \in Requests : Dispatch(r) = "getProduct" /\ Serve(r)

PostProduct ==
  /\ req = NoRequest
  /\ \E r \in Requests : Dispatch(r) = "createProduct" /\ Serve(r)

PutProduct ==
  /\ req = NoRequest
  /\ \E r \in Requests : Dispatch(r) = "updateProduct" /\ Serve(r)

DeleteById ==
  /\ req = NoRequest
  /\ \E r \in Requests : Dispatch(r) = "deleteProduct" /\ Serve(r)

Unmatched ==
  /\ req = NoRequest
  /\ \E r \in Requests : Dispatch(r) = "routeNotFound" /\ Serve(r)

\* the response is out and the event loop waits for the next request
NextRequest ==
  /\ req # NoRequest
  /\ req' = NoRequest
  /\ res' = NoResponse
  /\ stages' = <<>>
  /\ before' = products
  /\ UNCHANGED <<products, uuidCount, mutations, inflight, served>>

Next ==
  \/ GetRoot
  \/ GetProducts
  \/ GetSearch
  \/ GetStats
  \/ GetById
  \/ PostProduct
  \/ PutProduct
  \/ DeleteById
  \/ Unmatched
  \/ NextRequest

Spec == Init /\ [][Next]_vars

-----------------------------------------------------------------------------
(* Several requests in flight                                              *)

\* requests of clients that act at the same time on the records "1" and "2"
ConcRequests ==
  LET key == [h \in {"x-api-key"} |-> Str(ApiKey)]
      tablet == [name |-> Str("Tablet"), price |-> Num(300)]
  IN { Request("PUT", <<"api", "products", "1">>, key, EmptyObject, tablet),
       Request("PUT", <<"api", "products", "2">>, key, EmptyObject, tablet),
       Request("DELETE", <<"api", "products", "1">>, key, EmptyObject,
               EmptyObject),
       Request("DELETE", <<"api", "products", "2">>, key, EmptyObject,
               EmptyObject),
       Request("POST", <<"api", "products">>, key, EmptyObject, tablet) }

\* a request in flight: when it arrived, counted in store changes, and where
\* its handler stands
Task(r) == [r |-> r, arrived |-> mutations, pc |-> "ready", index |-> -1]

\* the PUT and DELETE handlers give up control between findIndex and the
\* assignment or the splice
HandlerYieldsBetween(r) == Dispatch(r) \in {"updateProduct", "deleteProduct"}

\* whether the handler of r gives up control between its lookup and its
\* mutation: the handlers are plain functions without await or callback
HandlerYields(r) == FALSE

\* the rest of a handler that resumes with the index it found earlier
ResumeAt(t) ==
  IF Dispatch(t.r) = "updateProduct"
    THEN LET updated == IF t.index < Len(products)
                          THEN MergeAt(products, t.index, t.r.body)
                          ELSE Append(products, t.r.body)
         IN Outcome(updated, uuidCount,
                    Json(200, [status |-> "success",
                               message |-> "Product successfully updated",
                               data |-> updated[t.index + 1]]),
                    <<"updateProduct">>)
    ELSE Outcome(SpliceOut(products, t.index), uuidCount,
                 Json(200, [status |-> "success",
                            message |-> "Product successfully deleted",
                            data |-> IF t.index < Len(products)
                                       THEN products[t.index + 1]
                                       ELSE Undefined]),
                 <<"deleteProduct">>)

\* the outcome o of task t is written to the store and answered
Commit(t, o) ==
  /\ o.uuidCount <= MaxCreates
  /\ o.products # products => mutations < MaxMutations
  /\ products' = o.products
  /\ uuidCount' = o.uuidCount
  /\ mutations' = IF o.products # products THEN mutations + 1 ELSE mutations
  /\ req' = t.r
  /\ res' = o.res
  /\ stages' = o.stages
  /\ before' = products
  /\ inflight' = inflight \ {t}
  /\ served' = IF o.products # products
                 THEN Append(served, [r |-> t.r, arrived |-> t.arrived])
                 ELSE served

\* a request arrives and its body is read while others are in flight
Arrive ==
  \E r \in ConcRequests :
    /\ Cardinality(inflight) < MaxInFlight
    /\ \A t \in inflight : t.r # r
    /\ inflight' = inflight \cup {Task(r)}
    /\ UNCHANGED <<products, uuidCount, mutations, req, res, stages, before,
                   served>>

\* the event loop runs the next turn of a request in flight: the middleware
\* chain and the handler, up to the point where the handler gives up control
RunTask ==
  \E t \in inflight :
    IF t.pc = "lookedUp" THEN \E o \in {ResumeAt(t)} : Commit(t, o)
    ELSE IF HandlerYields(t.r) /\ Handle(t.r).res.code = 200
      THEN /\ inflight' =
                (inflight \ {t}) \cup
                  {[t EXCEPT !.pc = "lookedUp",
                             !.index = FindIndex(products, ParamId(t.r))]}
           /\ UNCHANGED <<products, uuidCount, mutations, req, res, stages,
                          before, served>>
    ELSE \E o \in {Handle(t.r)} : Commit(t, o)

NextConc ==
  \/ Arrive
  \/ RunTask

SpecConc == Init /\ [][NextConc]_vars

TypeOK ==
  /\ uuidCount \in 0..MaxCreates
  /\ mutations \in 0..MaxMutations
  /\ Len(products) <= Len(SeedProducts) + MaxCreates
  /\ Cardinality(inflight) <= MaxInFlight
  /\ Len(served) <= MaxMutations

-----------------------------------------------------------------------------
(* Vocabulary of the properties: the request, its response and the store   *)
(* before and after, read from the state without the handlers' helpers     *)

Served == req # NoRequest

IsGet(path) == Served /\ req.method = "GET" /\ req.path = path

\* the request is for /api/products/<id>
OnIdPath ==
  /\ Served
  /\ Len(req.path) = 3
  /\ req.path[1] = "api"
  /\ req.path[2] = "products"

IsPost == Served /\ req.method = "POST" /\ req.path = <<"api", "products">>
IsPut == OnIdPath /\ req.method = "PUT"
IsDelete == OnIdPath /\ req.method = "DELETE"
IsGetById ==
  OnIdPath /\ req.method = "GET" /\ req.path[3] \notin {"search", "stats"}

PathId == req.path[3]

\* the request carries the shared secret in x-api-key
HasKey ==
  /\ "x-api-key" \in DOMAIN req.headers
  /\ req.headers["x-api-key"] = <<"string", "mysecretapikey">>

NameValid ==
  /\ "name" \in DOMAIN req.body
  /\ req.body.name[1] = "string"
  /\ req.body.name[2] # ""

PriceValid ==
  /\ "price" \in DOMAIN req.body
  /\ req.body.price[1] = "number"

\* the positions of the records of arr whose id is the string id
Holders(arr, id) ==
  {i \in 1..Len(arr) : "id" \in DOMAIN arr[i] /\ arr[i].id = <<"string", id>>}

ErrorEnvelope(code, message) ==
  [code |-> code, body |-> [status |-> "error", message |-> message]]

IsSuccess(code) ==
  /\ res.code = code
  /\ res.body.status = "success"

-----------------------------------------------------------------------------
(* Properties                                                              *)

\* C1: no two records of the collection have the same id, and the id a
\* successful create returns is the id of no record that was already there.
C1_UniqueIds ==
  /\ \A i, j \in 1..Len(products) :
       i # j => Get(products[i], "id") # Get(products[j], "id")
  /\ (IsPost /\ res.code = 201) =>
       \A i \in 1..Len(before) : Get(before[i], "id") # res.body.data.id

\* C2: a successful PUT leaves the id of the updated record as it was, and
\* the id in the response is the id of the path.
C2_UpdateKeepsId ==
  (IsPut /\ res.code = 200) =>
    \A i \in Holders(before, PathId) :
      (\A j \in Holders(before, PathId) : i <= j) =>
        /\ Get(products[i], "id") = Get(before[i], "id")
        /\ res.body.data.id = <<"string", PathId>>

\* C3: a search without a name, or with an empty one, is answered 400 with
\* the validation message of the search term.
C3_SearchWithoutName ==
  (/\ IsGet(<<"api", "products", "search">>)
   /\ ("name" \notin DOMAIN req.query \/ req.query.name = <<"string", "">>))
  => res = ErrorEnvelope(400, "Search term \"name\" is required")

\* C4: a GET by an id that no record has is answered 404, and right after a
\* successful DELETE of an id, a GET of that id is answered 404.
C4_GetAfterDelete ==
  /\ (IsGetById /\ Holders(before, PathId) = {}) => res.code = 404
  /\ (IsDelete /\ res.code = 200 /\ PathId \notin {"search", "stats"}) =>
       Handle(Request("GET", req.path, EmptyObject, EmptyObject,
                      EmptyObject)).res.code = 404

\* C5: a POST, PUT or DELETE of a product without the right x-api-key is
\* answered 401 with an error envelope and leaves the collection as it was,
\* whatever the body and the id; so the collection changes only under a
\* request that carries the right key.
C5_NoKeyNoChange ==
  /\ ((IsPost \/ IsPut \/ IsDelete) /\ ~HasKey) =>
       /\ res.code = 401
       /\ res.body.status = "error"
       /\ products = before
  /\ products # before => HasKey

\* a PUT of a valid body to an existing id with a wrong key was refused
C5_Witness ==
  /\ IsPut /\ NameValid /\ PriceValid
  /\ Holders(before, PathId) # {}
  /\ "x-api-key" \in DOMAIN req.headers
  /\ ~HasKey
  /\ res.code = 401

\* C6: an authenticated POST or PUT whose body has no non-empty string name
\* or no numeric price is answered 400 with the message of the name when the
\* name is invalid and of the price otherwise, and leaves the collection as
\* it was; for PUT also when no record has the id.
C6_InvalidBodyRejected ==
  ((IsPost \/ IsPut) /\ HasKey /\ ~(NameValid /\ PriceValid)) =>
    /\ res =
         ErrorEnvelope(400,
           IF ~NameValid
             THEN "Product name is required and must be a string"
             ELSE "Product price is required and must be a number")
    /\ products = before

\* a PUT to an id no record has, with a string as price, was answered 400
C6_Witness ==
  /\ IsPut /\ HasKey
  /\ Holders(before, PathId) = {}
  /\ NameValid
  /\ "price" \in DOMAIN req.body /\ ~PriceValid
  /\ res.code = 400

\* C7: an authenticated PUT with a valid body, and an authenticated DELETE,
\* are answered 404 with 'Product with ID <id> not found' and leave the
\* collection as it was when no record has the id.
C7_MissingIdNotFound ==
  (/\ (IsPut /\ NameValid /\ PriceValid) \/ IsDelete
   /\ HasKey
   /\ Holders(before, PathId) = {})
  => /\ res = ErrorEnvelope(404, "Product with ID " \o PathId \o " not found")
     /\ products = before

\* an authenticated DELETE of an id that an earlier DELETE removed
C7_Witness ==
  /\ IsDelete /\ HasKey
  /\ PathId = "1"
  /\ Holders(before, PathId) = {}
  /\ res.code = 404

\* C8: GET /api/products/search and GET /api/products/stats are handled by
\* the search and the stats handler and never by the by-id handler, also
\* when a record has the id "search" or "stats".
C8_StaticBeforeParam ==
  /\ IsGet(<<"api", "products", "search">>) =>
       /\ stages[Len(stages)] \in {"searchProducts", "errorHandler"}
       /\ \E i \in 1..Len(stages) : stages[i] = "searchProducts"
       /\ \A i \in 1..Len(stages) : stages[i] # "getProduct"
  /\ IsGet(<<"api", "products", "stats">>) =>
       /\ stages[Len(stages)] = "productStats"
       /\ \A i \in 1..Len(stages) : stages[i] # "getProduct"
       /\ IsSuccess(200)
       /\ "data" \in DOMAIN res.body

\* a search was served while a record had the id "search"
C8_Witness ==
  /\ IsGet(<<"api", "products", "search">>)
  /\ Holders(before, "search") # {}
  /\ IsSuccess(200)
  /\ "count" \in DOMAIN res.body

\* the request matches one of the eight declared routes
C9_Declared ==
  \/ req.method = "GET" /\ req.path = <<>>
  \/ req.method \in {"GET", "POST"} /\ req.path = <<"api", "products">>
  \/ req.method \in {"GET", "PUT", "DELETE"} /\ OnIdPath

\* C9: a request whose method and path match no declared route is answered
\* 404 with "Route not found" and leaves the collection as it was.
C9_UnmatchedRoute ==
  (Served /\ ~C9_Declared) =>
    /\ res = ErrorEnvelope(404, "Route not found")
    /\ products = before

\* POST /api/products/search with the right key fell through to the catch-all
C9_Witness ==
  /\ Served /\ req.method = "POST"
  /\ req.path = <<"api", "products", "search">>
  /\ HasKey
  /\ res.code = 404

\* the integer a decimal query string denotes
DecimalValue(s) ==
  CASE s = "-1" -> -1
    [] s = "0" -> 0
    [] s = "1" -> 1
    [] s = "2" -> 2

\* the page and the limit the request asks for
AskedPage ==
  IF "page" \in DOMAIN req.query THEN DecimalValue(req.query.page[2]) ELSE 1
AskedLimit ==
  IF "limit" \in DOMAIN req.query THEN DecimalValue(req.query.limit[2]) ELSE 3

\* the positions in the collection of the records the category filter keeps
Kept ==
  {i \in 1..Len(before) :
     \/ "category" \notin DOMAIN req.query
     \/ /\ "category" \in DOMAIN before[i]
        /\ before[i].category = req.query.category}

\* the position in the collection of the j-th kept record, j counted from 0
KeptAt(j) ==
  CHOOSE i \in Kept : Cardinality({k \in Kept : k < i}) = j

\* C10: for page >= 1 and limit >= 1 (defaults 1 and 3) the list response is
\* a 200 success whose total is the number of records of the category (of
\* all records without a filter), whose page is the page asked for, and whose
\* data is the kept records at the indices i, (page-1)*limit <= i <
\* (page-1)*limit + limit, in insertion order; empty beyond the kept set.
C10_ListPage ==
  (IsGet(<<"api", "products">>) /\ AskedPage >= 1 /\ AskedLimit >= 1) =>
    LET first == (AskedPage - 1) * AskedLimit
        wanted == {j \in 0..(Cardinality(Kept) - 1) :
                     first <= j /\ j < first + AskedLimit}
    IN /\ IsSuccess(200)
       /\ res.body.total = Cardinality(Kept)
       /\ res.body.page = AskedPage
       /\ Len(res.body.data) = Cardinality(wanted)
       /\ \A k \in 1..Len(res.body.data) :
            res.body.data[k] = before[KeptAt(first + k - 1)]

\* the second page of one of the two records of a category was listed
C10_Witness ==
  /\ IsGet(<<"api", "products">>)
  /\ "category" \in DOMAIN req.query
  /\ AskedPage = 2 /\ AskedLimit = 1
  /\ res.body.total = 2
  /\ Len(res.body.data) = 1
  /\ Len(before) > 3

\* the position of the record that findIndex locates for the id of the path
Located ==
  CHOOSE i \in Holders(before, PathId) :
    \A j \in Holders(before, PathId) : i <= j

\* C11: a successful PUT changes only the fields named in the body, of the
\* one record located by the id: its other fields keep their values, the
\* other records, the length and the order are unchanged, and the response
\* data is the record as stored.
C11_UpdateFrame ==
  (IsPut /\ res.code = 200) =>
    /\ Holders(before, PathId) # {}
    /\ Len(products) = Len(before)
    /\ \A j \in 1..Len(before) : j # Located => products[j] = before[j]
    /\ DOMAIN products[Located] = (DOMAIN before[Located]) \cup (DOMAIN req.body)
    /\ \A f \in (DOMAIN before[Located]) \ (DOMAIN req.body) :
         products[Located][f] = before[Located][f]
    /\ \A f \in DOMAIN req.body : products[Located][f] = req.body[f]
    /\ res.body.data = products[Located]

\* a PUT without category and description renamed a record that kept both
C11_Witness ==
  /\ IsPut /\ res.code = 200
  /\ "category" \notin DOMAIN req.body
  /\ "description" \notin DOMAIN req.body
  /\ products[Located].name # before[Located].name
  /\ products[Located].category = <<"string", "electronics">>
  /\ Located = 2

\* C12: a successful POST is answered 201 and appends one record at the end:
\* the records that were there keep their values and order, the new record
\* has the name, description, price and category of the body, and its
\* inStock is true when the body has none and the supplied boolean otherwise.
C12_CreateAppends ==
  (IsPost /\ HasKey /\ NameValid /\ PriceValid) =>
    /\ IsSuccess(201)
    /\ Len(products) = Len(before) + 1
    /\ SubSeq(products, 1, Len(before)) = before
    /\ \A f \in {"name", "description", "price", "category"} :
         f \in DOMAIN req.body => products[Len(products)][f] = req.body[f]
    /\ products[Len(products)].inStock =
         (IF "inStock" \in DOMAIN req.body THEN req.body.inStock
          ELSE <<"boolean", TRUE>>)
    /\ res.body.data = products[Len(products)]

\* a POST with inStock false was stored out of stock
C12_Witness ==
  /\ IsPost /\ res.code = 201
  /\ "inStock" \in DOMAIN req.body
  /\ req.body.inStock = <<"boolean", FALSE>>
  /\ products[Len(products)].inStock = <<"boolean", FALSE>>
  /\ Len(products) = Len(before) + 1

\* C13: a successful DELETE removes one record, the one of the response,
\* whose id is the id of the path: the length shrinks by one and the other
\* records keep their values and order.
C13_DeleteFrame ==
  (IsDelete /\ res.code = 200) =>
    \E i \in 1..Len(before) :
      /\ before[i] = res.body.data
      /\ before[i].id = <<"string", PathId>>
      /\ Len(products) = Len(before) - 1
      /\ \A j \in 1..Len(products) :
           products[j] = IF j < i THEN before[j] ELSE before[j + 1]

\* the record in the middle of the collection was deleted
C13_Witness ==
  /\ IsDelete /\ res.code = 200
  /\ Len(before) >= 3
  /\ before[2] = res.body.data
  /\ products[2] = before[3]

\* C14: no GET changes the collection, and a GET by id or a list query asked
\* again right after its response gets the same response.
C14_ReadsArePure ==
  (Served /\ req.method = "GET") =>
    /\ products = before
    /\ (IsGetById \/ IsGet(<<"api", "products">>)) => Handle(req).res = res

\* a page of a collection that earlier requests had changed was listed
C14_Witness ==
  /\ IsGet(<<"api", "products">>)
  /\ Len(res.body.data) > 0
  /\ before # SeedProducts
  /\ products = before

\* the name under which the category of the i-th record is counted: the
\* category, "undefined" for a record without one
CountedAs(i) ==
  IF "category" \in DOMAIN before[i] /\ before[i].category[1] = "string"
    THEN before[i].category[2]
    ELSE "undefined"

RECURSIVE SumOf(_, _)
\* the sum of the numbers that data holds under the keys
SumOf(data, keys) ==
  IF keys = {} THEN 0
  ELSE LET k == CHOOSE x \in keys : TRUE
       IN data[k][2] + SumOf(data, keys \ {k})

\* C15: the stats response maps each category occurring in the collection,
\* and nothing else, to the number of records that have it, and the counts
\* sum to the length of the collection.
C15_StatsCounts ==
  IsGet(<<"api", "products", "stats">>) =>
    /\ IsSuccess(200)
    /\ DOMAIN res.body.data = {CountedAs(i) : i \in 1..Len(before)}
    /\ \A k \in DOMAIN res.body.data :
         res.body.data[k] =
           <<"number", Cardinality({i \in 1..Len(before) : CountedAs(i) = k})>>
    /\ SumOf(res.body.data, DOMAIN res.body.data) = Len(before)

\* C16: for any integer page and limit, zero and negative ones included, the
\* list response is a 200 success whose data holds only kept records at
\* indices i with (page-1)*limit <= i < (page-1)*limit + limit, and is empty
\* when no index of the kept set lies in that interval.
C16_ListAnyInteger ==
  IsGet(<<"api", "products">>) =>
    LET first == (AskedPage - 1) * AskedLimit
        wanted == {j \in 0..(Cardinality(Kept) - 1) :
                     first <= j /\ j < first + AskedLimit}
    IN /\ IsSuccess(200)
       /\ \A k \in 1..Len(res.body.data) :
            \E j \in wanted : res.body.data[k] = before[KeptAt(j)]
       /\ wanted = {} => res.body.data = <<>>

\* the stages that run before the route's own middleware
Common == <<"bodyParser.json", "logger">>

\* C17: a request to an /api route gets one response, a success envelope
\* with 200 (201 for a create) or an error envelope with a message and a
\* status of 400, 401, 404 or 500; after a failing stage no middleware and no
\* handler runs, and only the error handler follows a forwarded error.
C17_OneResponse ==
  (Served /\ Len(req.path) >= 1 /\ req.path[1] = "api") =>
    /\ \/ /\ res.body.status = "success"
          /\ res.code = IF IsPost THEN 201 ELSE 200
          /\ \A i \in 1..Len(stages) : stages[i] # "errorHandler"
       \/ /\ res.body.status = "error"
          /\ "message" \in DOMAIN res.body
          /\ res.code \in {400, 401, 404, 500}
          /\ res.code # 401 => stages[Len(stages)] = "errorHandler"
    /\ \A i \in 1..Len(stages) : stages[i] = "errorHandler" => i = Len(stages)
    /\ ((IsPost \/ IsPut \/ IsDelete) /\ ~HasKey) =>
         stages = Common \o <<"authenticate">>
    /\ ((IsPost \/ IsPut) /\ HasKey /\ ~(NameValid /\ PriceValid)) =>
         stages = Common \o <<"authenticate", "validateProduct", "errorHandler">>
    /\ (IsPut /\ HasKey /\ NameValid /\ PriceValid
          /\ Holders(before, PathId) = {}) =>
         stages = Common \o <<"authenticate", "validateProduct",
                              "updateProduct", "errorHandler">>
    /\ (IsDelete /\ HasKey /\ Holders(before, PathId) = {}) =>
         stages = Common \o <<"authenticate", "deleteProduct", "errorHandler">>
    /\ (IsGetById /\ Holders(before, PathId) = {}) =>
         stages = Common \o <<"getProduct", "errorHandler">>

\* validateProduct failed for a PUT to an existing id: the update handler
\* did not run and the error handler answered
C17_Witness ==
  /\ IsPut /\ HasKey /\ ~NameValid
  /\ Holders(before, PathId) # {}
  /\ res.code = 400
  /\ stages[Len(stages)] = "errorHandler"
  /\ \A i \in 1..Len(stages) : stages[i] # "updateProduct"

\* C19: every record of the collection has a non-empty string as name and a
\* number as price, so a search with a term compares every stored name and
\* succeeds.
C19_StoredNamesAndPrices ==
  /\ \A i \in 1..Len(products) :
       /\ "name" \in DOMAIN products[i]
       /\ products[i].name[1] = "string"
       /\ products[i].name[2] # ""
       /\ "price" \in DOMAIN products[i]
       /\ products[i].price[1] = "number"
  /\ (/\ IsGet(<<"api", "products", "search">>)
      /\ "name" \in DOMAIN req.query
      /\ req.query.name # <<"string", "">>) => IsSuccess(200)

\* a search ran over a collection holding a created and an updated record
C19_Witness ==
  /\ IsGet(<<"api", "products", "search">>)
  /\ IsSuccess(200)
  /\ Len(before) > 3
  /\ before[1].name # <<"string", "Laptop">>

\* the first position of arr whose record has the id, 0 when none has
FirstHolder(arr, id) ==
  IF Holders(arr, id) = {} THEN 0
  ELSE CHOOSE i \in Holders(arr, id) : \A j \in Holders(arr, id) : i <= j

\* the collection after request r alone has acted on arr, count ids having
\* been generated before: what a server serving one request at a time does
SerialEffect(arr, count, r) ==
  LET i == FirstHolder(arr, r.path[Len(r.path)])
  IN IF r.method = "POST"
       THEN Append(arr,
              [f \in {"id", "name", "description", "price", "category",
                      "inStock"} |->
                 IF f = "id" THEN <<"string", Uuid(count + 1)>>
                 ELSE IF f \in DOMAIN r.body THEN r.body[f]
                 ELSE IF f = "inStock" THEN <<"boolean", TRUE>>
                 ELSE <<"undefined", "">>])
     ELSE IF i = 0 THEN arr
     ELSE IF r.method = "PUT"
       THEN [arr EXCEPT ![i] =
               [f \in (DOMAIN arr[i]) \cup (DOMAIN r.body) |->
                  IF f \in DOMAIN r.body THEN r.body[f] ELSE arr[i][f]]]
     ELSE SubSeq(arr, 1, i - 1) \o SubSeq(arr, i + 1, Len(arr))

RECURSIVE SerialRun(_, _, _)
\* the collection after the requests of log have acted one after the other
SerialRun(arr, count, log) ==
  IF log = <<>> THEN arr
  ELSE SerialRun(SerialEffect(arr, count, Head(log).r),
                 IF Head(log).r.method = "POST" THEN count + 1 ELSE count,
                 Tail(log))

\* C18: with several requests in flight, the record that an update or a
\* delete mutates is the one that has the requested id at the time of the
\* mutation, and the collection is the result of the requests that changed
\* it, run one after the other in the order in which they were handled.
C18_SerialOrder ==
  /\ products = SerialRun(SeedProducts, 0, served)
  /\ (IsPut /\ res.code = 200) =>
       /\ Holders(before, PathId) # {}
       /\ products = SerialEffect(before, 0, req)
  /\ (IsDelete /\ res.code = 200) =>
       /\ Holders(before, PathId) # {}
       /\ products = SerialEffect(before, 0, req)
       /\ res.body.data = before[FirstHolder(before, PathId)]

\* a PUT to record "2" was handled after a DELETE of record "1" that ran
\* while the PUT was in flight and moved record "2" to another index
C18_Witness ==
  /\ IsPut /\ res.code = 200 /\ PathId = "2"
  /\ Len(served) >= 2
  /\ served[Len(served)].r = req
  /\ served[Len(served)].arrived < Len(served) - 1
  /\ served[Len(served) - 1].r.method = "DELETE"
  /\ served[Len(served) - 1].r.path[3] = "1"
  /\ served[Len(served) - 1].arrived <= served[Len(served)].arrived

====
